---- MODULE Spec2Model ----
(***************************************************************************)
(* Model of src/lambda/index.py: the /chat endpoint (chat_endpoint), the   *)
(* lazily cached Bedrock client (init_bedrock_client), the backend call    *)
(* (invoke_bedrock) and the region derivation (extract_region_from_arn).   *)
(*                                                                         *)
(* A string that the code only inspects through the pattern                *)
(* 'arn:aws:lambda:([^:]+):' is modelled as the sequence of its            *)
(* colon-separated fields (the empty string is the one-field sequence      *)
(* <<"">>).  A Python dict is a record, a Python list a sequence, and the  *)
(* local variables of one run of the handler are the record frame[r],      *)
(* whose domain grows as the locals are assigned.                          *)
(***************************************************************************)
EXTENDS Integers, Sequences, FiniteSets, TLC

\* ---- bounds of the model
NumReq == 3
MaxHist == 2
MaxFields == 6

\* ---- program constants
MaxTokens == 512
StatusInternalError == 500

VARIABLES
    bedrock_client,  \* the module-level global of line 20
    clients,         \* every client boto3.client has constructed, in order
    running,         \* the request whose handler holds the event loop, 0 if none
    pc,              \* position of each request's handler
    req,             \* the ChatRequest and ASGI scope of each accepted request
    frame,           \* local variables of each handler run
    call,            \* what the backend received from each request, and did
    response,        \* what each finished handler returned or raised
    hint,            \* argument of a stand-alone extract_region_from_arn call
    derived          \* its return value

vars == <<bedrock_client, clients, running, pc, req, frame, call, response,
          hint, derived>>

\* ---- values
Requests == 1..NumReq

NoClient == [id |-> 0, region |-> "None"]
NoRequest == [absent |-> TRUE]
NoFrame == [started |-> FALSE]
NoCall == [made |-> FALSE]
NoResponse == [pending |-> TRUE]
NotDerived == "<not derived>"

MODEL_ID == "us.amazon.nova-lite-v1:0"

DefaultRegion == "us-east-1"

SeqsUpTo(S, n) == UNION {[1..k -> S] : k \in 0..n}

\* ---- extract_region_from_arn

\* The fields whose text ends with "arn": re.search is not anchored, so the
\* literal 'arn' of the pattern may be the tail of a longer field.
EndsWithArn(field) == field \in {"arn", "myarn"}

\* The pattern matches with its literal 'arn' ending field i: then fields
\* i+1 and i+2 are "aws" and "lambda", field i+3 is the non-empty group
\* ([^:]+) and a colon (hence a further field) follows it.
MatchAt(fields, i) ==
    /\ i + 4 <= Len(fields)
    /\ EndsWithArn(fields[i])
    /\ fields[i + 1] = "aws"
    /\ fields[i + 2] = "lambda"
    /\ fields[i + 3] # ""

RECURSIVE SearchFrom(_, _)
SearchFrom(fields, i) ==
    IF i > Len(fields) THEN 0
    ELSE IF MatchAt(fields, i) THEN i
    ELSE SearchFrom(fields, i + 1)

\* re.match in place of re.search: the pattern is tried at the start only.
SearchAnchored(fields) == IF MatchAt(fields, 1) THEN 1 ELSE 0

\* re.search: the leftmost match, 0 for None.
Search(fields) == SearchFrom(fields, 1)

extract_region_from_arn(fields) ==
    LET m == Search(fields)
    IN  IF m # 0 THEN fields[m + 3] ELSE DefaultRegion

\* ---- chat_endpoint: the pure parts

UserTurn(message) == [role |-> "user", content |-> message]

AssistantTurn(text) == [role |-> "assistant", content |-> text]

Accepted(r) == "message" \in DOMAIN req[r]

\* A body kept in a module-level variable set by the first accepted request,
\* in place of the handler's own.
SharedBody(r) ==
    LET first == CHOOSE q \in Requests :
                     Accepted(q) /\ \A p \in 1..(q - 1) : ~Accepted(p)
    IN  [message |-> req[first].message,
         conversationHistory |-> req[first].conversationHistory]

\* Lines 62-69: the request is dumped into lambda_event["body"] and loaded
\* again; for strings, lists and dicts the round trip gives the value back.
LambdaBody(r) ==
    [message |-> req[r].message,
     conversationHistory |-> req[r].conversationHistory]


\* Lines 71-74: one message per turn of history + [user turn], each content
\* wrapped as a one-element list holding a text block.
WrapTurn(m) == [role |-> m.role, content |-> <<[text |-> m.content]>>]

MessagesNewestFirst(payload) ==
    LET turns == <<UserTurn(payload.message)>> \o payload.conversationHistory
    IN  [i \in 1..Len(turns) |-> WrapTurn(turns[i])]

BedrockMessages(payload) ==
    LET turns == payload.conversationHistory \o <<UserTurn(payload.message)>>
    IN  [i \in 1..Len(turns) |-> WrapTurn(turns[i])]

\* Lines 70-78.
BedrockPayload(payload) ==
    [messages |-> BedrockMessages(payload),
     inferenceConfig |-> [maxTokens |-> MaxTokens, stopSequences |-> <<>>,
                          temperature |-> "0.7", topP |-> "0.9"]]

KeyError(key) == [ok |-> FALSE, error |-> key]

\* result.get(...) with defaults in place of subscripts: a missing field
\* gives the empty reply.
ReplyTextOrEmpty(result) ==
    IF /\ "output" \in DOMAIN result
       /\ "message" \in DOMAIN result.output
       /\ "content" \in DOMAIN result.output.message
       /\ Len(result.output.message.content) > 0
       /\ "text" \in DOMAIN result.output.message.content[1]
    THEN [ok |-> TRUE, text |-> result.output.message.content[1].text]
    ELSE [ok |-> TRUE, text |-> ""]

\* Line 81: result['output']['message']['content'][0]['text'], each
\* subscript raising when its key or index is missing.
ReplyText(result) ==
    IF "output" \notin DOMAIN result THEN KeyError("'output'")
    ELSE IF "message" \notin DOMAIN result.output THEN KeyError("'message'")
    ELSE IF "content" \notin DOMAIN result.output.message
         THEN KeyError("'content'")
    ELSE IF Len(result.output.message.content) = 0
         THEN [ok |-> FALSE, error |-> "list index out of range"]
    ELSE IF "text" \notin DOMAIN result.output.message.content[1]
         THEN KeyError("'text'")
    ELSE [ok |-> TRUE, text |-> result.output.message.content[1].text]

HistoryReplyFirst(payload, text) ==
    <<AssistantTurn(text)>> \o payload.conversationHistory

\* Line 82.
MergeHistory(payload, text) ==
    payload.conversationHistory \o <<AssistantTurn(text)>>

\* Line 83.
SuccessResult(text, hist) ==
    [success |-> TRUE, response |-> text, conversationHistory |-> hist]

ErrorInSuccessShape(e) ==
    [success |-> FALSE, response |-> e, conversationHistory |-> <<>>]

\* Lines 85-86: every exception becomes HTTPException(500, str(e)).
ErrorResult(e) == [status_code |-> StatusInternalError, detail |-> e]

\* ---- init_bedrock_client

IsNoneAlways(c) == TRUE

\* Line 24.
IsNone(c) == c = NoClient

\* ---- scheduling

\* The handler is a coroutine that suspends only at an await.
RunsAnywhere(r) == TRUE

\* Line 56: chat_endpoint is an `async def` holding no await, so once the
\* event loop has started a handler no other handler runs before it ends.
MayRun(r) == running \in {0, r}

\* ---- the steps of one request

Bind(r, name, value) == [frame EXCEPT ![r] = @ @@ (name :> value)]

\* The framework has parsed a request into ChatRequest and its ASGI scope.
Accept(r, message, hist, ctx) ==
    /\ pc[r] = "idle"
    /\ req' = [req EXCEPT ![r] = [message |-> message,
                                  conversationHistory |-> hist,
                                  aws_context |-> ctx]]
    /\ pc' = [pc EXCEPT ![r] = "ready"]
    /\ UNCHANGED <<bedrock_client, clients, running, frame, call, response,
                   hint, derived>>

\* Lines 60-78: the handler starts and builds payload and bedrock_payload.
Start(r) ==
    /\ pc[r] = "ready"
    /\ MayRun(r)
    /\ running' = r
    /\ frame' = [frame EXCEPT ![r] =
                    [payload |-> LambdaBody(r),
                     bedrock_payload |-> BedrockPayload(LambdaBody(r))]]
    /\ pc' = [pc EXCEPT ![r] = "init"]
    /\ UNCHANGED <<bedrock_client, clients, req, call, response, hint, derived>>

\* Lines 85-86 reached from any step.
Raise(r, e) ==
    /\ response' = [response EXCEPT ![r] = ErrorResult(e)]
    /\ pc' = [pc EXCEPT ![r] = "done"]
    /\ running' = 0

\* Lines 79, 30, 22-24 and 27: invoke_bedrock enters init_bedrock_client,
\* which tests the global and returns it when it is set.
InitCheck(r) ==
    /\ pc[r] = "init"
    /\ MayRun(r)
    /\ IF IsNone(bedrock_client)
       THEN /\ pc' = [pc EXCEPT ![r] = "construct"]
            /\ UNCHANGED frame
       ELSE /\ pc' = [pc EXCEPT ![r] = "invoke"]
            /\ frame' = Bind(r, "client", bedrock_client)
    /\ UNCHANGED <<bedrock_client, clients, running, req, call, response,
                   hint, derived>>

\* Lines 25-27: derive the region, construct the client, store it in the
\* global and return it; boto3.client may raise.
Construct(r, constructed) ==
    /\ pc[r] = "construct"
    /\ MayRun(r)
    /\ IF constructed
       THEN LET new == [id |-> Len(clients) + 1,
                        region |-> extract_region_from_arn(req[r].aws_context)]
            IN  /\ clients' = Append(clients, new)
                /\ bedrock_client' = new
                /\ frame' = Bind(r, "client", new)
                /\ pc' = [pc EXCEPT ![r] = "invoke"]
                /\ UNCHANGED <<running, response>>
       ELSE /\ Raise(r, "boto3.client failed")
            /\ UNCHANGED <<bedrock_client, clients, frame>>
    /\ UNCHANGED <<req, call, hint, derived>>

\* Lines 31-38: the one call to the backend, the body read and json.loads.
Invoke(r, outcome) ==
    /\ pc[r] = "invoke"
    /\ MayRun(r)
    /\ call' = [call EXCEPT ![r] =
                   [modelId |-> MODEL_ID,
                    body |-> frame[r].bedrock_payload,
                    contentType |-> "application/json",
                    region |-> frame[r].client.region,
                    outcome |-> outcome]]
    /\ IF outcome.kind = "json"
       THEN /\ frame' = Bind(r, "result", outcome.body)
            /\ pc' = [pc EXCEPT ![r] = "extract"]
            /\ UNCHANGED <<running, response>>
       ELSE /\ Raise(r, outcome.kind)
            /\ UNCHANGED frame
    /\ UNCHANGED <<bedrock_client, clients, req, hint, derived>>

\* Lines 81-86: extract the reply, merge it into the history and return.
Finish(r) ==
    /\ pc[r] = "extract"
    /\ MayRun(r)
    /\ LET got == ReplyText(frame[r].result)
       IN  IF got.ok
           THEN LET hist == MergeHistory(frame[r].payload, got.text)
                IN  /\ frame' = [frame EXCEPT ![r] =
                                    @ @@ ("msg" :> got.text) @@ ("history" :> hist)]
                    /\ response' = [response EXCEPT ![r] =
                                       SuccessResult(got.text, hist)]
                    /\ pc' = [pc EXCEPT ![r] = "done"]
                    /\ running' = 0
           ELSE /\ Raise(r, got.error)
                /\ UNCHANGED frame
    /\ UNCHANGED <<bedrock_client, clients, req, call, hint, derived>>

\* ---- inputs

Roles == {"user", "assistant"}

Turns == [role : Roles, content : {"a", "b"}]

Histories == SeqsUpTo(Turns, MaxHist)

Messages == {"Hello", "a"}

LambdaArn(rgn) ==
    <<"arn", "aws", "lambda", rgn, "123456789012", "function", "chat">>

\* request.scope.get("aws.context", ""): absent, or an invoked-function ARN.
Contexts == {<<"">>, LambdaArn("us-west-2"), LambdaArn("eu-west-1")}

Reply(content) ==
    [output |-> [message |-> [role |-> "assistant", content |-> content]]]

Bodies ==
    {Reply(<<[text |-> "Hi there"]>>),
     Reply(<<[text |-> "b"], [text |-> "Hi there"]>>),
     Reply(<<[text |-> ""]>>),
     Reply(<<>>),
     Reply(<<[image |-> "png"]>>),
     [output |-> [message |-> [role |-> "assistant"]]],
     [output |-> [stopReason |-> "end_turn"]],
     [message |-> "Internal server error"]}

\* What client.invoke_model, the body read and json.loads can do: raise
\* ClientError, raise on an undecodable body, or give a decoded dict.
Outcomes ==
    {[kind |-> "ClientError"], [kind |-> "JSONDecodeError"]}
        \cup {[kind |-> "json", body |-> b] : b \in Bodies}

FewOutcomes ==
    {[kind |-> "ClientError"],
     [kind |-> "json", body |-> Reply(<<[text |-> "Hi there"]>>)],
     [kind |-> "json", body |-> Reply(<<[image |-> "png"]>>)]}

FieldAlphabet == {"arn", "myarn", "aws", "lambda", "us-west-2", ""}

Hints == SeqsUpTo(FieldAlphabet, MaxFields) \ {<<>>}

\* ---- the process

Init ==
    /\ bedrock_client = NoClient
    /\ clients = <<>>
    /\ running = 0
    /\ pc = [r \in Requests |-> "idle"]
    /\ req = [r \in Requests |-> NoRequest]
    /\ frame = [r \in Requests |-> NoFrame]
    /\ call = [r \in Requests |-> NoCall]
    /\ response = [r \in Requests |-> NoResponse]
    /\ hint = <<"">>
    /\ derived = NotDerived

\* Requests that differ in the context they arrive with.
AcceptAnyContext(r) ==
    \E ctx \in {<<"">>, LambdaArn("us-west-2")} : Accept(r, "Hello", <<>>, ctx)

\* Requests that differ in their body.
AcceptAnyBody(r) ==
    \E hist \in {<<>>, <<UserTurn("a"), AssistantTurn("b")>>} :
        Accept(r, "Hello", hist, <<"">>)

\* Any request within the bounds.
AcceptAny(r) ==
    \E message \in Messages, hist \in Histories, ctx \in Contexts :
        Accept(r, message, hist, ctx)

ConstructAny(r) == \E constructed \in BOOLEAN : Construct(r, constructed)

InvokeFew(r) == \E outcome \in FewOutcomes : Invoke(r, outcome)

InvokeAny(r) == \E outcome \in Outcomes : Invoke(r, outcome)

\* Concurrent requests under different contexts.
Next ==
    \E r \in Requests :
        \/ AcceptAnyContext(r)
        \/ Start(r)
        \/ InitCheck(r)
        \/ ConstructAny(r)
        \/ InvokeFew(r)
        \/ Finish(r)

Spec == Init /\ [][Next]_vars

\* Concurrent requests with different bodies.
NextBodies ==
    \E r \in Requests :
        \/ AcceptAnyBody(r)
        \/ Start(r)
        \/ InitCheck(r)
        \/ ConstructAny(r)
        \/ InvokeFew(r)
        \/ Finish(r)

SpecBodies == Init /\ [][NextBodies]_vars

\* One request with any body, context and backend outcome, in a process
\* that has or has not served requests before.
InitTurn ==
    /\ \E cached \in {NoClient, [id |-> 1, region |-> DefaultRegion],
                      [id |-> 1, region |-> "us-west-2"]} :
          /\ bedrock_client = cached
          /\ clients = IF cached = NoClient THEN <<>> ELSE <<cached>>
    /\ running = 0
    /\ pc = [r \in Requests |-> "idle"]
    /\ req = [r \in Requests |-> NoRequest]
    /\ frame = [r \in Requests |-> NoFrame]
    /\ call = [r \in Requests |-> NoCall]
    /\ response = [r \in Requests |-> NoResponse]
    /\ hint = <<"">>
    /\ derived = NotDerived

NextTurn ==
    \/ AcceptAny(1)
    \/ Start(1)
    \/ InitCheck(1)
    \/ ConstructAny(1)
    \/ InvokeAny(1)
    \/ Finish(1)

SpecTurn == InitTurn /\ [][NextTurn]_vars

\* extract_region_from_arn alone, on every hint within the bounds.
InitRegion ==
    /\ bedrock_client = NoClient
    /\ clients = <<>>
    /\ running = 0
    /\ pc = [r \in Requests |-> "idle"]
    /\ req = [r \in Requests |-> NoRequest]
    /\ frame = [r \in Requests |-> NoFrame]
    /\ call = [r \in Requests |-> NoCall]
    /\ response = [r \in Requests |-> NoResponse]
    /\ hint \in Hints
    /\ derived = NotDerived

Derive ==
    /\ derived = NotDerived
    /\ derived' = extract_region_from_arn(hint)
    /\ UNCHANGED <<bedrock_client, clients, running, pc, req, frame, call,
                   response, hint>>

NextRegion == Derive

SpecRegion == InitRegion /\ [][NextRegion]_vars

\* ---- properties

Done(r) == pc[r] = "done"

Succeeded(r) == Done(r) /\ "success" \in DOMAIN response[r]

Failed(r) == Done(r) /\ "status_code" \in DOMAIN response[r]

Called(r) == "outcome" \in DOMAIN call[r]

Submitted(r) == req[r].conversationHistory

IsPrefix(s, t) == Len(s) <= Len(t) /\ \A i \in 1..Len(s) : t[i] = s[i]

\* C1: the conversationHistory of a successful response has length
\* len(H)+2 and is H followed by the user turn carrying M and then the
\* assistant turn carrying the reply R.
C1_HistoryGainsUserAndAssistantTurn ==
    \A r \in Requests :
        Succeeded(r) =>
            /\ Len(response[r].conversationHistory) = Len(Submitted(r)) + 2
            /\ response[r].conversationHistory =
                   Submitted(r) \o <<UserTurn(req[r].message),
                                     AssistantTurn(response[r].response)>>

\* C2: the message list sent to the backend has length len(H)+1, ends with
\* the user turn carrying M, and starts with the turns of H in order, role
\* and content unchanged, each content wrapped as a single text block.
C2_PayloadIsHistoryThenMessage ==
    \A r \in Requests :
        Called(r) =>
            LET sent == call[r].body.messages
                H == Submitted(r)
            IN  /\ Len(sent) = Len(H) + 1
                /\ sent[Len(sent)] =
                       [role |-> "user",
                        content |-> <<[text |-> req[r].message]>>]
                /\ \A i \in 1..Len(H) :
                       /\ sent[i].role = H[i].role
                       /\ sent[i].content = <<[text |-> H[i].content]>>

C2_Witness ==
    \E r \in Requests :
        /\ Called(r)
        /\ Len(Submitted(r)) = 2
        /\ Submitted(r)[1] # Submitted(r)[2]
        /\ Submitted(r)[2].content = req[r].message

\* C3: a failed backend invocation ends the request in a failure result
\* with no merge and no history; every finished request either completed
\* the whole pipeline and returns the updated history, or failed and
\* carries no history at all.
C3_FailureCarriesNoHistory ==
    \A r \in Requests :
        Done(r) =>
            /\ (Called(r) /\ call[r].outcome.kind # "json") =>
                   /\ Failed(r)
                   /\ "history" \notin DOMAIN frame[r]
            /\ \/ /\ DOMAIN response[r] =
                         {"success", "response", "conversationHistory"}
                  /\ response[r].success
                  /\ Called(r)
                  /\ call[r].outcome.kind = "json"
                  /\ {"bedrock_payload", "result", "msg", "history"}
                         \subseteq DOMAIN frame[r]
                  /\ response[r].conversationHistory = frame[r].history
                  /\ response[r].conversationHistory # Submitted(r)
               \/ /\ DOMAIN response[r] = {"status_code", "detail"}
                  /\ "history" \notin DOMAIN frame[r]

C3_Witness ==
    \E r \in Requests :
        /\ Done(r)
        /\ Called(r)
        /\ call[r].outcome.kind = "ClientError"
        /\ Len(Submitted(r)) = 2

\* C4: with several requests in flight before any client is cached, at
\* most one client is ever constructed, and the cached client is that one.
C4_AtMostOneClientConstructed ==
    /\ Len(clients) <= 1
    /\ bedrock_client # NoClient => clients = <<bedrock_client>>

C4_Witness ==
    \E r1, r2 \in Requests :
        /\ pc[r1] = "invoke"
        /\ pc[r2] = "ready"
        /\ Len(clients) = 1
        /\ frame[r1].client = bedrock_client
        /\ extract_region_from_arn(req[r2].aws_context) # bedrock_client.region

\* C5: once a client is cached it is never reset or rebound, and every
\* later init_bedrock_client call returns that same instance, whatever
\* region the later call's context derives.
C5_CachedClientIsKept ==
    /\ [](\A r \in Requests :
              "client" \in DOMAIN frame[r] =>
                  /\ frame[r].client = bedrock_client
                  /\ frame[r].client = clients[1])
    /\ [][bedrock_client # NoClient => bedrock_client' = bedrock_client]_vars

C5_Witness ==
    \E r \in Requests :
        /\ "client" \in DOMAIN frame[r]
        /\ frame[r].client.region = DefaultRegion
        /\ extract_region_from_arn(req[r].aws_context) = "us-west-2"

\* C6: a backend body lacking any field on the path
\* output.message.content[0].text ends the request in a failure result,
\* never in a success response, and no merge happens.
HasReplyPath(body) ==
    /\ "output" \in DOMAIN body
    /\ "message" \in DOMAIN body.output
    /\ "content" \in DOMAIN body.output.message
    /\ body.output.message.content # <<>>
    /\ "text" \in DOMAIN Head(body.output.message.content)

C6_MissingFieldIsFailure ==
    \A r \in Requests :
        (/\ Done(r)
         /\ Called(r)
         /\ call[r].outcome.kind = "json"
         /\ ~HasReplyPath(call[r].outcome.body)) =>
            /\ Failed(r)
            /\ "success" \notin DOMAIN response[r]
            /\ "history" \notin DOMAIN frame[r]

C6_Witness ==
    \E r \in Requests :
        /\ Done(r)
        /\ Called(r)
        /\ call[r].outcome.kind = "json"
        /\ call[r].outcome.body = Reply(<<[image |-> "png"]>>)

\* C7: the derived region is the region field of the leftmost Lambda ARN
\* prefix the hint contains, and "us-east-1" when it contains none; the
\* derivation gives a region for every hint, the empty one included.
RegionTokenAt(fields, i) ==
    /\ i >= 1
    /\ i + 3 < Len(fields)
    /\ fields[i] \in {"arn", "myarn"}
    /\ <<fields[i + 1], fields[i + 2]>> = <<"aws", "lambda">>
    /\ fields[i + 3] # ""

C7_RegionIsTokenOrDefault ==
    derived # NotDerived =>
        IF \E i \in 1..Len(hint) : RegionTokenAt(hint, i)
        THEN \E i \in 1..Len(hint) :
                 /\ RegionTokenAt(hint, i)
                 /\ \A j \in 1..(i - 1) : ~RegionTokenAt(hint, j)
                 /\ derived = hint[i + 3]
        ELSE derived = "us-east-1"

C7_Witness ==
    /\ derived = "us-west-2"
    /\ hint = <<"", "myarn", "aws", "lambda", "us-west-2", "">>

\* C8: a successful response has success = true, its response is the text
\* of the first content block, the assistant turn appended to the history
\* carries that text, and H=[], M="Hello", reply "Hi there" gives the
\* history [{user,"Hello"},{assistant,"Hi there"}].
C8_ResponseIsFirstBlockText ==
    \A r \in Requests :
        Succeeded(r) =>
            LET text == call[r].outcome.body.output.message.content[1].text
                hist == response[r].conversationHistory
            IN  /\ response[r].success
                /\ response[r].response = text
                /\ hist[Len(hist)] = AssistantTurn(text)
                /\ (/\ Submitted(r) = <<>>
                    /\ req[r].message = "Hello"
                    /\ text = "Hi there") =>
                       hist = <<UserTurn("Hello"), AssistantTurn("Hi there")>>

\* C9: in every successful response the submitted history is a prefix of
\* the returned one, and only new turns follow it.
C9_HistoryIsAppendOnly ==
    \A r \in Requests :
        Succeeded(r) =>
            /\ IsPrefix(Submitted(r), response[r].conversationHistory)
            /\ Len(response[r].conversationHistory) > Len(Submitted(r))

C9_Witness ==
    \E r \in Requests :
        /\ Succeeded(r)
        /\ Len(Submitted(r)) = 2
        /\ Submitted(r)[1] # Submitted(r)[2]

\* C10: two requests with the same message and history send the same
\* payload, and with the same backend outcome get the same response,
\* whatever other requests were served before, between or after them.
SameBody(r1, r2) ==
    /\ req[r1].message = req[r2].message
    /\ req[r1].conversationHistory = req[r2].conversationHistory

C10_RequestsDoNotInterfere ==
    \A r1, r2 \in Requests :
        (Done(r1) /\ Done(r2) /\ SameBody(r1, r2)) =>
            /\ (Called(r1) /\ Called(r2)) => call[r1].body = call[r2].body
            /\ (Called(r1) /\ Called(r2)
                    /\ call[r1].outcome = call[r2].outcome) =>
                   response[r1] = response[r2]
            /\ (~Called(r1) /\ ~Called(r2)) => response[r1] = response[r2]

C10_Witness ==
    \E r1, r2, r3 \in Requests :
        /\ Succeeded(r1)
        /\ Succeeded(r2)
        /\ Done(r3)
        /\ r1 # r2
        /\ SameBody(r1, r2)
        /\ ~SameBody(r1, r3)

====
